---- MODULE Spec2Model ----
(***************************************************************************)
(* Semantic search over financial transactions: the VectorSearchService   *)
(* (services/vectorSearchService.py), its persisted artifacts, the        *)
(* startup sequence (api/app.py), the query endpoint                      *)
(* (api/routes/search.py) and the SummarizerService                       *)
(* (services/summarizerService.py).                                       *)
(*                                                                         *)
(* Strings the code inspects character by character (dates, descriptions) *)
(* are sequences of one-character strings.  Positions returned by the     *)
(* index are 0-based, as in the code; -1 is FAISS's "no vector" position. *)
(***************************************************************************)
EXTENDS Integers, Sequences, FiniteSets, TLC

\* ------------------------------------------------------------------ bounds

\* Number of transaction records the data source holds.
MaxRecs == 4

\* ------------------------------------------------------- program constants

\* Query(..., max_length=200)
MaxQueryLen == 200
\* Query(5, ge=1, le=200)
MaxTopK == 200
\* semantic_search over-fetches top_k * 3 candidates
OverFetch == 3
\* score FAISS reports for a result slot it cannot fill (-3.4e38 in IndexFlatIP)
MissingScore == -1000

\* ------------------------------------------------------------ small helpers

Min(a, b) == IF a <= b THEN a ELSE b

\* str.lower() on one character
LowerChar(c) ==
    CASE c = "U" -> "u"
      [] c = "A" -> "a"
      [] c = "B" -> "b"
      [] c = "E" -> "e"
      [] c = "R" -> "r"
      [] c = "C" -> "c"
      [] c = "P" -> "p"
      [] OTHER -> c

\* str.lower()
Lower(s) == [i \in DOMAIN s |-> LowerChar(s[i])]

\* str.startswith(prefix)
StartsWith(s, prefix) ==
    /\ Len(prefix) <= Len(s)
    /\ \A i \in 1..Len(prefix) : s[i] = prefix[i]

\* the `in` operator on two strings: sub occurs in s
Contains(sub, s) ==
    \E off \in 0..(Len(s) - Len(sub)) :
        \A i \in 1..Len(sub) : s[off + i] = sub[i]

\* ---------------------------------------------------------- transactions

\* The rows the data generator can emit, reduced to five representative ones.
BaseRows ==
    << [userId |-> "user_1", date |-> <<"2","0","2","4","-","0","1","-","0","5">>,
        description |-> <<"U","b","e","r">>, amount |-> 100,
        type |-> "Debit", category |-> "Travel"],
       [userId |-> "user_1", date |-> <<"2","0","2","4","-","0","1","-","2","0">>,
        description |-> <<"U","B","E","R"," ","c","a","b">>, amount |-> 200,
        type |-> "Debit", category |-> "Travel"],
       [userId |-> "user_2", date |-> <<"2","0","2","4","-","0","2","-","0","1">>,
        description |-> <<"R","e","n","t">>, amount |-> 9000,
        type |-> "Debit", category |-> "Rent"],
       [userId |-> "user_2", date |-> <<"2","0","2","4","-","0","2","-","1","1">>,
        description |-> <<"P","a","y">>, amount |-> 9000,
        type |-> "Credit", category |-> "Salary"],
       [userId |-> "user_1", date |-> <<"2","0","2","4","-","0","3","-","0","2">>,
        description |-> <<"c","a","b">>, amount |-> 50,
        type |-> "Debit", category |-> "Food"] >>

\* One transaction dictionary: "id" is unique, the other fields come from a row.
Transaction(i) ==
    LET row == BaseRows[((i - 1) % Len(BaseRows)) + 1]
    IN  [id |-> i, userId |-> row.userId, date |-> row.date,
         description |-> row.description, amount |-> row.amount,
         type |-> row.type, category |-> row.category]

\* generate_transactions(): the full record set, ids ascending
AllTransactions == [i \in 1..MaxRecs |-> Transaction(i)]

\* The record lists a caller passes to build_index: the empty list and the
\* tails of the record set (they differ in length and in what sits at
\* position 0).
RecordLists ==
    {SubSeq(AllTransactions, a, MaxRecs) : a \in 1..(MaxRecs + 1)}

\* ------------------------------------------------------------- embeddings

\* create_embedding_text: the fields that go into the canonical sentence, in
\* the sentence's order.
create_embedding_text(t) ==
    <<t.type, t.amount, t.date, t.description, t.category, t.userId>>

\* The sentence encoder, as a fixed function of the sentence: two axes,
\* one following the category and one the size of the amount.
Encode(text) ==
    << CASE text[5] = "Travel" -> 2
         [] text[5] = "Rent"   -> 1
         [] text[5] = "Food"   -> 3
         [] OTHER              -> 0,
       IF text[2] >= 5000 THEN 2 ELSE IF text[2] >= 200 THEN 1 ELSE 0 >>

\* generate_embeddings on success: one vector per record, order preserved
generate_embeddings(txns) ==
    [i \in DOMAIN txns |-> Encode(create_embedding_text(txns[i]))]

\* A query string: its length and the vector generate_query_embedding gives it.
Queries ==
    { [len |-> 0, vec |-> <<0, 1>>],
      [len |-> 6, vec |-> <<1, 0>>],
      [len |-> MaxQueryLen + 1, vec |-> <<1, 1>>] }

generate_query_embedding(q) == q.vec

\* No query string.
NoQuery == [len |-> 0, vec |-> <<0, 0>>]

\* inner product of two vectors
InnerProduct(u, v) == u[1] * v[1] + u[2] * v[2]

\* ------------------------------------------------------------ FAISS index

\* self.index = None
NoIndex == [none |-> TRUE, vecs |-> <<>>]

\* faiss.IndexFlatIP(dimension): an index holding no vector yet
IndexFlatIP == [none |-> FALSE, vecs |-> <<>>]

\* index.add(embeddings)
IndexAdd(idx, embeddings) == [idx EXCEPT !.vecs = idx.vecs \o embeddings]

\* Position j is a better match than position p: higher inner product, and
\* on equal products the lower position.
Better(vecs, qv, j, p) ==
    \/ InnerProduct(vecs[j], qv) > InnerProduct(vecs[p], qv)
    \/ /\ InnerProduct(vecs[j], qv) = InnerProduct(vecs[p], qv)
       /\ j < p

\* index.search(query_embedding, kf), for kf >= 1: kf (score, position) pairs,
\* best first; the slots beyond the vectors held are (MissingScore, -1).
FaissSearch(vecs, qv, kf) ==
    [r \in 1..kf |->
        IF r <= Len(vecs)
        THEN LET p == CHOOSE x \in DOMAIN vecs :
                         Cardinality({j \in DOMAIN vecs : Better(vecs, qv, j, x)}) = r - 1
             IN  <<InnerProduct(vecs[p], qv), p - 1>>
        ELSE <<MissingScore, -1>>]

\* ------------------------------------------------- VectorSearchService

\* VectorSearchService.__init__
NewService == [index |-> NoIndex, transactions |-> <<>>, is_loaded |-> FALSE]

\* What generate_embeddings can do inside build_index: return the vectors,
\* raise (non-dict record, encoder failure, dimension mismatch in a batch),
\* or return fewer rows than records.
EmbedOutcomes == {"ok", "raise", "short"}

\* build_index, line 25: the record list is stored first
BuildAssign(s, txns) == [s EXCEPT !.transactions = txns]

\* build_index, lines 31-35: the embeddings, or <<"error">> when
\* generate_embeddings raises or the row count does not match
BuildEmbed(txns, outcome) ==
    LET embeddings ==
            IF outcome = "short" /\ Len(txns) > 0
            THEN SubSeq(generate_embeddings(txns), 1, Len(txns) - 1)
            ELSE generate_embeddings(txns)
    IN  IF outcome = "raise" THEN [ok |-> FALSE, embeddings |-> <<>>]
        ELSE IF Len(embeddings) # Len(txns) THEN [ok |-> FALSE, embeddings |-> <<>>]
        ELSE [ok |-> TRUE, embeddings |-> embeddings]

\* build_index, line 38: a new empty index replaces the old one
BuildCreate(s) == [s EXCEPT !.index = IndexFlatIP]

\* build_index, line 39: the vectors are added
BuildAdd(s, embeddings) == [s EXCEPT !.index = IndexAdd(s.index, embeddings)]

\* build_index, line 41
BuildReady(s) == [s EXCEPT !.is_loaded = TRUE]

\* build_index as one call: the service afterwards and whether it raised
build_index(s, txns, outcome) ==
    LET s1 == BuildAssign(s, txns)
        e  == BuildEmbed(txns, outcome)
    IN  IF ~e.ok THEN [svc |-> s1, out |-> "error"]
        ELSE [svc |-> BuildReady(BuildAdd(BuildCreate(s1), e.embeddings)),
              out |-> "ok"]

\* --------------------------------------------------- persisted artifacts

\* The two paths of one index: faiss_index_path and faiss_metadata_path.
Files == {"faiss", "meta"}

Absent == [state |-> "absent", data |-> <<>>]
Corrupt == [state |-> "corrupt", data |-> <<>>]
Stored(data) == [state |-> "ok", data |-> data]

\* embeddings/ holding neither artifact
EmptyDisk == [f \in Files |-> Absent]

\* os.path.exists(path)
Exists(disk, f) == disk[f].state # "absent"

\* faiss.write_index: the vector count and the vectors as one flat array
WriteIndex(idx) ==
    [ntotal |-> Len(idx.vecs),
     xb |-> [n \in 1..(2 * Len(idx.vecs)) |-> idx.vecs[(n + 1) \div 2][2 - (n % 2)]]]

\* ReadIndex with the two components of every vector exchanged.
ReadIndex_Swapped(data) ==
    [none |-> FALSE,
     vecs |-> [i \in 1..data.ntotal |-> <<data.xb[2 * i], data.xb[2 * i - 1]>>]]

\* faiss.read_index: the index rebuilt from the flat array
ReadIndex(data) ==
    [none |-> FALSE,
     vecs |-> [i \in 1..data.ntotal |-> <<data.xb[2 * i - 1], data.xb[2 * i]>>]]

\* The keys of a transaction dictionary, in insertion order.
TxnKeys == <<"id", "userId", "date", "description", "amount", "type", "category">>

\* json.dump of one dictionary: its members, in insertion order
DumpDict(t) == [i \in 1..Len(TxnKeys) |-> <<TxnKeys[i], t[TxnKeys[i]]>>]

\* json.load of one object
LoadDict(members) ==
    [k \in {members[i][1] : i \in DOMAIN members} |->
        members[CHOOSE i \in DOMAIN members : members[i][1] = k][2]]

\* json.dump(metadata) with metadata = {'transactions': ..., 'count': ...}
JsonDump(txns) ==
    << <<"transactions", [i \in DOMAIN txns |-> DumpDict(txns[i])]>>,
       <<"count", Len(txns)>> >>

\* json.load(f) followed by metadata.get('transactions', [])
JsonLoadTransactions(text) ==
    IF \E i \in DOMAIN text : text[i][1] = "transactions"
    THEN LET arr == text[CHOOSE i \in DOMAIN text : text[i][1] = "transactions"][2]
         IN  [i \in DOMAIN arr |-> LoadDict(arr[i])]
    ELSE <<>>

\* What can go wrong while save_index writes the sidecar: nothing, open()
\* raises (the old sidecar stays), or the dump raises part-way (a truncated
\* sidecar is left).
SaveFaults == {"none", "open", "dump"}

\* save_index as one call: the disk afterwards and whether it raised
save_index(s, disk, fault) ==
    IF s.index.none THEN [disk |-> disk, out |-> "error"]
    ELSE LET d1 == [disk EXCEPT !["faiss"] = Stored(WriteIndex(s.index))]
         IN  CASE fault = "open" -> [disk |-> d1, out |-> "error"]
               [] fault = "dump" -> [disk |-> [d1 EXCEPT !["meta"] = Corrupt],
                                     out |-> "error"]
               [] OTHER -> [disk |-> [d1 EXCEPT !["meta"] = Stored(JsonDump(s.transactions))],
                            out |-> "ok"]

\* load_index, lines 94-98: the clean-up after a failed read.  rmFail holds
\* the files whose os.remove raises; a raise ends the clean-up.
CleanUp(disk, rmFail) ==
    IF Exists(disk, "faiss") /\ "faiss" \in rmFail
    THEN [disk |-> disk, raised |-> TRUE]
    ELSE LET d1 == [disk EXCEPT !["faiss"] = Absent]
         IN  IF Exists(d1, "meta") /\ "meta" \in rmFail
             THEN [disk |-> d1, raised |-> TRUE]
             ELSE [disk |-> [d1 EXCEPT !["meta"] = Absent], raised |-> FALSE]

\* load_index as one call: the service and the disk afterwards, and how it
\* ended: "ok", "not_found" (FileNotFoundError), "error" (the read error,
\* re-raised after the clean-up) or "remove_error" (os.remove raised).
load_index(s, disk, rmFail) ==
    IF ~Exists(disk, "faiss")
    THEN [svc |-> s, disk |-> disk, out |-> "not_found"]
    ELSE IF disk["faiss"].state = "corrupt"
    THEN LET c == CleanUp(disk, rmFail)
         IN  [svc |-> s, disk |-> c.disk,
              out |-> IF c.raised THEN "remove_error" ELSE "error"]
    ELSE LET s1 == [s EXCEPT !.index = ReadIndex(disk["faiss"].data)]
         IN  IF ~Exists(disk, "meta")
             THEN [svc |-> [s1 EXCEPT !.is_loaded = TRUE], disk |-> disk, out |-> "ok"]
             ELSE IF disk["meta"].state = "corrupt"
             THEN LET c == CleanUp(disk, rmFail)
                  IN  [svc |-> s1, disk |-> c.disk,
                       out |-> IF c.raised THEN "remove_error" ELSE "error"]
             ELSE [svc |-> [s1 EXCEPT
                               !.transactions = JsonLoadTransactions(disk["meta"].data),
                               !.is_loaded = TRUE],
                   disk |-> disk, out |-> "ok"]

\* ----------------------------------------------------------------- search

\* The filter dictionaries callers pass, as (key, value) items in insertion
\* order; the empty one stands for both None and {}.
FilterSets ==
    { <<>>,
      << <<"min_amount", 200>> >>,
      << <<"max_amount", 200>>, <<"type", "Debit">> >>,
      << <<"category", "Travel">>, <<"description_contains", <<"c","A","b">> >> >>,
      << <<"user_id", "user_1">>, <<"month", <<"2","0","2","4","-","0","1">> >> >> }

\* FilterLoop returning after the first item it looks at.
FilterLoop_FirstItemOnly(transaction, filters, i) ==
    LET key == filters[i][1]
        value == filters[i][2]
    IN  ~ \/ key = "min_amount" /\ transaction.amount < value
          \/ key = "max_amount" /\ transaction.amount > value
          \/ key = "type" /\ transaction.type # value
          \/ key = "category" /\ transaction.category # value
          \/ key = "user_id" /\ transaction.userId # value
          \/ key = "month" /\ ~StartsWith(transaction.date, value)
          \/ key = "description_contains"
                /\ ~Contains(Lower(value), Lower(transaction.description))

\* _passes_filters, lines 133-149: the loop over filters.items() from item i
RECURSIVE FilterLoop(_, _, _)
FilterLoop(transaction, filters, i) ==
    IF i > Len(filters) THEN TRUE
    ELSE LET key == filters[i][1]
             value == filters[i][2]
         IN  IF key = "min_amount" /\ transaction.amount < value THEN FALSE
             ELSE IF key = "max_amount" /\ transaction.amount > value THEN FALSE
             ELSE IF key = "type" /\ transaction.type # value THEN FALSE
             ELSE IF key = "category" /\ transaction.category # value THEN FALSE
             ELSE IF key = "user_id" /\ transaction.userId # value THEN FALSE
             ELSE IF key = "month" /\ ~StartsWith(transaction.date, value) THEN FALSE
             ELSE IF key = "description_contains"
                     /\ ~Contains(Lower(value), Lower(transaction.description))
                  THEN FALSE
             ELSE FilterLoop(transaction, filters, i + 1)

\* _passes_filters
PassesFilters(transaction, filters) ==
    IF Len(filters) = 0 THEN TRUE ELSE FilterLoop(transaction, filters, 1)

\* self.transactions[idx] with Python's indexing: a negative idx counts from
\* the end of the list
PyItem(list, idx) == IF idx >= 0 THEN list[idx + 1] ELSE list[Len(list) + idx + 1]

\* transaction.copy() with transaction['similarity_score'] = float(score)
WithScore(transaction, score) == ("similarity_score" :> score) @@ transaction

\* Hit writing the score into the stored dictionary itself.
Hit_NoCopy(txns, idx, score) ==
    LET scored == WithScore(PyItem(txns, idx), score)
        at == IF idx >= 0 THEN idx + 1 ELSE Len(txns) + idx + 1
    IN  [transaction |-> scored, stored |-> [txns EXCEPT ![at] = scored]]

\* semantic_search, lines 116-117: the candidate's dictionary is copied and
\* the score attached to the copy; the stored list stays as it is
Hit(txns, idx, score) ==
    [transaction |-> WithScore(PyItem(txns, idx), score), stored |-> txns]

\* semantic_search, lines 113-124: the loop over the candidates from slot i;
\* the results and the stored list as the loop leaves them
RECURSIVE Collect(_, _, _, _, _, _)
Collect(txns, cands, top_k, filters, i, results) ==
    IF i > Len(cands) THEN [results |-> results, stored |-> txns]
    ELSE LET score == cands[i][1]
             idx == cands[i][2]
         IN  IF idx < Len(txns)
             THEN LET h == Hit(txns, idx, score)
                      r1 == IF PassesFilters(h.transaction, filters)
                            THEN Append(results, h.transaction)
                            ELSE results
                  IN  IF Len(r1) >= top_k THEN [results |-> r1, stored |-> h.stored]
                      ELSE Collect(h.stored, cands, top_k, filters, i + 1, r1)
             ELSE Collect(txns, cands, top_k, filters, i + 1, results)

\* NotReady looking at the index alone.
NotReady_IndexOnly(s) == s.index.none

\* semantic_search, line 103: the readiness guard
NotReady(s) == ~s.is_loaded \/ s.index.none

\* semantic_search, line 110: the number of candidates asked of the index
FetchCount(s, top_k) == Min(top_k * OverFetch, Len(s.transactions))

\* semantic_search as one call.  kChecked tells whether the installed FAISS
\* rejects a search for k <= 0 vectors (newer releases assert k > 0, older
\* ones return no candidate).
semantic_search(s, q, top_k, filters, kChecked) ==
    IF NotReady(s) THEN [out |-> "not_ready", results |-> <<>>]
    ELSE LET kf == FetchCount(s, top_k)
         IN  IF kf <= 0
             THEN [out |-> IF kChecked THEN "faiss_error" ELSE "ok", results |-> <<>>]
             ELSE [out |-> "ok",
                   results |-> Collect(s.transactions,
                                       FaissSearch(s.index.vecs,
                                                   generate_query_embedding(q), kf),
                                       top_k, filters, 1, <<>>).results]

\* The service's record list after a semantic_search call.
StoredAfterSearch(s, q, top_k, filters) ==
    IF NotReady(s) \/ FetchCount(s, top_k) <= 0 THEN s.transactions
    ELSE Collect(s.transactions,
                 FaissSearch(s.index.vecs, generate_query_embedding(q),
                             FetchCount(s, top_k)),
                 top_k, filters, 1, <<>>).stored

\* top_k values callers of semantic_search pass
TopKs == {1, 2, MaxTopK + 1}

\* ------------------------------------------------------------ Python values
\* The summarizer looks at the Python type of what a dictionary holds.  Where
\* it does, a value carries its type: an amount is an int (whole units), a
\* float (in thousandths), a non-numeric string or None; a date is a string
\* or something that is not one.

PyInt(n) == [py |-> "int", v |-> n]
PyFloat(m) == [py |-> "float", v |-> m]
PyBadNumber == [py |-> "str", v |-> 0]
PyStr(s) == [py |-> "str", v |-> s]
PyNoDate == [py |-> "none", v |-> <<>>]

\* The dictionary the summarizer is handed for a record of the service:
\* generate_transactions makes every amount an int and every date a string.
PyDict(t) ==
    [k \in DOMAIN t |->
        IF k = "amount" THEN PyInt(t[k])
        ELSE IF k = "date" THEN PyStr(t[k])
        ELSE t[k]]

\* dict.get(key, default)
DictGet(t, key, default) == IF key \in DOMAIN t THEN t[key] ELSE default

\* float(x) can be computed: x is a number
Floatable(x) == x.py \in {"int", "float"}

\* float(x), in thousandths
Float(x) == IF x.py = "int" THEN PyFloat(x.v * 1000) ELSE x

\* round(v, 2) of a float in thousandths that is not half-way between two
\* hundredths
Round2(m) == ((m + 5) \div 10) * 10

\* sum(values)
RECURSIVE Sum(_)
Sum(values) ==
    IF Len(values) = 0 THEN 0
    ELSE Sum(SubSeq(values, 1, Len(values) - 1)) + values[Len(values)]

\* The dictionary a loop `d[k] = d.get(k, 0.0) + x` builds from the pairs
\* (keys[i], values[i]) taken in order: its items in insertion order, a key
\* standing where it first occurred, each with the sum of its values.
Accumulate(keys, values) ==
    LET firsts == {i \in DOMAIN keys : \A j \in 1..(i - 1) : keys[j] # keys[i]}
    IN  [r \in 1..Cardinality(firsts) |->
            LET i == CHOOSE f \in firsts : Cardinality({j \in firsts : j < f}) = r - 1
            IN  <<keys[i],
                  Sum([j \in DOMAIN keys |-> IF keys[j] = keys[i] THEN values[j] ELSE 0])>>]

\* SortedDesc leaving the items in insertion order.
SortedDesc_Unsorted(items) == items

\* sorted(items, key=lambda x: x[1], reverse=True): descending by value, the
\* sort being stable, items of equal value keep their order
SortedDesc(items) ==
    LET before(j, i) == items[j][2] > items[i][2] \/ (items[j][2] = items[i][2] /\ j < i)
    IN  [r \in 1..Len(items) |->
            items[CHOOSE i \in DOMAIN items :
                      Cardinality({j \in DOMAIN items : before(j, i)}) = r - 1]]

\* max(items, key=...): the position of the first item whose key is largest
ArgMax(keys) ==
    CHOOSE i \in DOMAIN keys :
        /\ \A j \in DOMAIN keys : keys[j] <= keys[i]
        /\ \A j \in 1..(i - 1) : keys[j] < keys[i]

\* ---------------------------------------------------------------- dates

Digits == <<"0", "1", "2", "3", "4", "5", "6", "7", "8", "9">>

IsDigit(c) == \E d \in DOMAIN Digits : Digits[d] = c

DigitVal(c) == (CHOOSE d \in DOMAIN Digits : Digits[d] = c) - 1

\* int(s) of a string of digits
RECURSIVE ParseNat(_)
ParseNat(s) ==
    IF Len(s) = 0 THEN 0
    ELSE 10 * ParseNat(SubSeq(s, 1, Len(s) - 1)) + DigitVal(s[Len(s)])

AllDigits(s) == \A i \in DOMAIN s : IsDigit(s[i])

\* f"{n:04d}" and f"{n:02d}" for 0 <= n < 10^width
RECURSIVE Pad(_, _)
Pad(n, width) ==
    IF width = 0 THEN <<>>
    ELSE Append(Pad(n \div 10, width - 1), Digits[(n % 10) + 1])

DaysInMonth(year, month) ==
    IF month = 2
    THEN IF (year % 4 = 0 /\ year % 100 # 0) \/ year % 400 = 0 THEN 29 ELSE 28
    ELSE IF month \in {4, 6, 9, 11} THEN 30 ELSE 31

\* The time part fromisoformat accepts after the date: one separator and
\* HH, HH:MM or HH:MM:SS (strings with a fraction or an offset are not among
\* the inputs).
IsoTime(s) ==
    /\ Len(s) \in {3, 6, 9}
    /\ AllDigits(SubSeq(s, 2, 3)) /\ ParseNat(SubSeq(s, 2, 3)) <= 23
    /\ Len(s) >= 6 => /\ s[4] = ":"
                      /\ AllDigits(SubSeq(s, 5, 6)) /\ ParseNat(SubSeq(s, 5, 6)) <= 59
    /\ Len(s) = 9 => /\ s[7] = ":"
                     /\ AllDigits(SubSeq(s, 8, 9)) /\ ParseNat(SubSeq(s, 8, 9)) <= 59

\* datetime.fromisoformat(s): the year and month parsed, or a ValueError.
\* The strings of the model are of shapes every release parses alike:
\* YYYY-MM-DD, alone or followed by a time.
fromisoformat(s) ==
    LET shaped == /\ Len(s) >= 10
                  /\ AllDigits(SubSeq(s, 1, 4)) /\ s[5] = "-"
                  /\ AllDigits(SubSeq(s, 6, 7)) /\ s[8] = "-"
                  /\ AllDigits(SubSeq(s, 9, 10))
                  /\ Len(s) > 10 => IsoTime(SubSeq(s, 11, Len(s)))
        year == ParseNat(SubSeq(s, 1, 4))
        month == ParseNat(SubSeq(s, 6, 7))
        day == ParseNat(SubSeq(s, 9, 10))
    IN  IF shaped /\ year >= 1 /\ month \in 1..12 /\ day >= 1
                  /\ day <= DaysInMonth(year, month)
        THEN [ok |-> TRUE, year |-> year, month |-> month]
        ELSE [ok |-> FALSE, year |-> 0, month |-> 0]

Unknown == <<"u", "n", "k", "n", "o", "w", "n">>

\* _safe_year_month: the bucket of a date, or the IndexError that
\* date_str[7] raises on a string of seven characters
safe_year_month(date_str) ==
    IF date_str.py # "str" \/ Len(date_str.v) = 0
    THEN [raised |-> FALSE, ym |-> Unknown]
    ELSE LET dt == fromisoformat(date_str.v)
         IN  IF dt.ok
             THEN [raised |-> FALSE, ym |-> Pad(dt.year, 4) \o <<"-">> \o Pad(dt.month, 2)]
             ELSE IF Len(date_str.v) >= 7 /\ date_str.v[5] = "-"
             THEN IF Len(date_str.v) < 8
                  THEN [raised |-> TRUE, ym |-> <<>>]
                  ELSE IF date_str.v[8] \in {"-", "T", " "}
                  THEN [raised |-> FALSE, ym |-> SubSeq(date_str.v, 1, 7)]
                  ELSE [raised |-> FALSE, ym |-> Unknown]
             ELSE [raised |-> FALSE, ym |-> Unknown]

\* ------------------------------------------------------ SummarizerService

\* LARGE_TXN_THRESHOLD
LARGE_TXN_THRESHOLD == 5000
\* TOP_N_CATEGORIES
TOP_N_CATEGORIES == 5
\* len(transactions) > 50
VolumeThreshold == 50

\* summarize_results, line 81: t['amount'] = float(t.get('amount', 0))
NormalizeAmount(t) == ("amount" :> Float(DictGet(t, "amount", PyInt(0)))) @@ t

\* lines 80-81: the loop stops at the first record whose amount float()
\* rejects; the records before it have been written already
Normalize(txns) ==
    LET bad == {i \in DOMAIN txns : ~Floatable(DictGet(txns[i], "amount", PyInt(0)))}
        stop == IF bad = {} THEN Len(txns) + 1
                ELSE CHOOSE i \in bad : \A j \in bad : i <= j
    IN  [raised |-> bad # {},
         transactions |-> [i \in DOMAIN txns |->
                              IF i < stop THEN NormalizeAmount(txns[i]) ELSE txns[i]]]

\* line 89: txn.get('category', 'Others') or 'Others'
CategoryOf(txn) ==
    LET cat == DictGet(txn, "category", "Others")
    IN  IF cat = "" THEN "Others" ELSE cat

\* lines 87-90: the sums per category
CategorySums(txns) ==
    Accumulate([i \in DOMAIN txns |-> CategoryOf(txns[i])],
               [i \in DOMAIN txns |-> txns[i].amount.v])

\* lines 97-101: the sums per month; _safe_year_month raising on a record
\* ends the loop and the call
MonthlySums(txns) ==
    LET ym == [i \in DOMAIN txns |->
                  safe_year_month(DictGet(txns[i], "date", PyStr(<<>>)))]
    IN  IF \E i \in DOMAIN txns : ym[i].raised
        THEN [raised |-> TRUE, monthly_data |-> <<>>]
        ELSE [raised |-> FALSE,
              monthly_data |-> Accumulate([i \in DOMAIN txns |-> ym[i].ym],
                                          [i \in DOMAIN txns |-> txns[i].amount.v])]

\* lines 141-144: how often each lower-cased description occurs
MerchantCounts(txns) ==
    Accumulate([i \in DOMAIN txns |-> Lower(DictGet(txns[i], "description", <<>>))],
               [i \in DOMAIN txns |-> 1])

\* One insight string: which sentence it is and what is filled into it.
Insight(kind, args) == [kind |-> kind, args |-> args]

\* floor(a * 10^n / b) by long division, from remainder r and quotient acc
RECURSIVE LongDiv(_, _, _, _)
LongDiv(r, b, n, acc) ==
    IF n = 0 THEN acc
    ELSE LongDiv((r * 10) % b, b, n - 1, acc * 10 + ((r * 10) \div b))

\* {pct:.1f} of top_amount / total_amount * 100: the share in tenths of a
\* percent, 0.0 when the total is not positive
PctTenths(top_amount, total_amount) ==
    IF total_amount > 0
    THEN (LongDiv(top_amount % total_amount, total_amount, 4,
                  top_amount \div total_amount) + 5) \div 10
    ELSE 0

\* LargeEnough with a strict comparison.
LargeEnough_Strict(amount) == amount > LARGE_TXN_THRESHOLD * 1000

\* line 134: max_txn.get('amount', 0) >= LARGE_TXN_THRESHOLD
LargeEnough(amount) == amount >= LARGE_TXN_THRESHOLD * 1000

\* _generate_insights, for a non-empty list of normalized records
generate_insights(txns, categories, total_amount) ==
    LET top == categories[ArgMax([i \in DOMAIN categories |-> categories[i][2]])]
        a == IF Len(categories) > 0
             THEN << Insight("highest_category",
                             <<top[1], PctTenths(top[2], total_amount)>>) >>
             ELSE <<>>
        max_txn == txns[ArgMax([i \in DOMAIN txns |-> txns[i].amount.v])]
        b == IF LargeEnough(max_txn.amount.v)
             THEN << Insight("largest_transaction",
                             <<Round2(max_txn.amount.v),
                               DictGet(max_txn, "date", PyStr(<<>>)),
                               DictGet(max_txn, "description", Unknown)>>) >>
             ELSE <<>>
        merchant_counts == MerchantCounts(txns)
        most_common == merchant_counts[ArgMax([i \in DOMAIN merchant_counts |->
                                                  merchant_counts[i][2]])]
        c == IF Len(most_common[1]) > 0 /\ most_common[2] > 2
             THEN << Insight("frequent_payee", <<most_common[1], most_common[2]>>) >>
             ELSE <<>>
        d == IF Len(txns) > VolumeThreshold
             THEN << Insight("high_volume", <<Len(txns)>>) >>
             ELSE <<>>
    IN  a \o b \o c \o d

NoSummary == [query |-> NoQuery, total_transactions |-> 0, total_amount |-> 0,
              average_amount |-> 0, category_breakdown |-> <<>>,
              monthly_summary |-> <<>>, top_category |-> "None",
              insights |-> <<>>]

\* The first n items of a dictionary, each value rounded.
RoundedItems(items, n) ==
    [i \in 1..Min(n, Len(items)) |-> <<items[i][1], Round2(items[i][2])>>]

\* summarize_results as one call: whether it raised, the records it was
\* given as they are afterwards, and the summary
summarize_results(transactions, query) ==
    IF Len(transactions) = 0
    THEN [raised |-> FALSE, transactions |-> transactions,
          summary |-> [NoSummary EXCEPT !.query = query,
                                        !.insights = << Insight("none_found", <<>>) >>]]
    ELSE LET n == Normalize(transactions)
             txns == n.transactions
             total_amount == Sum([i \in DOMAIN txns |-> txns[i].amount.v])
             categories == CategorySums(txns)
             sorted_cats == SortedDesc(categories)
             m == MonthlySums(txns)
         IN  IF n.raised \/ m.raised
             THEN [raised |-> TRUE, transactions |-> txns, summary |-> NoSummary]
             ELSE [raised |-> FALSE, transactions |-> txns,
                   summary |->
                      [query |-> query,
                       total_transactions |-> Len(txns),
                       total_amount |-> Round2(total_amount),
                       average_amount |->
                          10 * ((total_amount + 5 * Len(txns)) \div (10 * Len(txns))),
                       category_breakdown |-> RoundedItems(sorted_cats, TOP_N_CATEGORIES),
                       monthly_summary |-> RoundedItems(m.monthly_data, Len(m.monthly_data)),
                       top_category |-> sorted_cats[1][1],
                       insights |-> generate_insights(txns, categories, total_amount)]]

\* ------------------------------------------------------------------ state

VARIABLES
    index,          \* self.index
    transactions,   \* self.transactions
    is_loaded,      \* self.is_loaded
    disk,           \* the two artifacts under embeddings/
    pc,             \* where a build_index call in progress stands
    call,           \* that call's argument and locals, and the service as it found it
    phase,          \* where startup_event stands
    data,           \* the transactions startup_event loaded or generated
    router,         \* search.vector_search_service is set
    last,           \* the last call made and how it ended
    succeeded,      \* a build_index or load_index of this service object has succeeded
    origin          \* the service as it was when the artifacts on disk were saved

vars == <<index, transactions, is_loaded, disk, pc, call, phase, data, router,
          last, succeeded, origin>>

svcVars == <<index, transactions, is_loaded>>
buildVars == <<pc, call>>
appVars == <<phase, data, router>>

\* The service object as one value.
Svc == [index |-> index, transactions |-> transactions, is_loaded |-> is_loaded]

\* The record of a call that is not a search: what was called and how it ended.
Call(op, out) ==
    [op |-> op, out |-> out, query |-> NoQuery, top_k |-> 0, filters |-> <<>>,
     results |-> <<>>, rmFail |-> {}, fresh |-> FALSE,
     given |-> <<>>, summary |-> NoSummary, detail |-> "none"]

NoOrigin == [valid |-> FALSE, svc |-> NewService]

NoCall == [txns |-> <<>>, embeddings |-> <<>>, old |-> NewService]

SetService(s) ==
    /\ index' = s.index
    /\ transactions' = s.transactions
    /\ is_loaded' = s.is_loaded

\* A new service object, nothing on disk, no application around it.
Init ==
    /\ index = NewService.index
    /\ transactions = NewService.transactions
    /\ is_loaded = NewService.is_loaded
    /\ disk = EmptyDisk
    /\ pc = "idle"
    /\ call = NoCall
    /\ phase = "none"
    /\ data = <<>>
    /\ router = FALSE
    /\ last = Call("init", "ok")
    /\ succeeded = FALSE
    /\ origin = NoOrigin

\* ---------------------------------------------------------------- actions

\* No search result is waiting to be taken by its caller.
Idle == last.op \notin {"search", "GET", "summarize"}

\* VectorSearchService(embedding_service): a new service object; the
\* artifacts on disk stay.
Construct ==
    /\ Idle
    /\ SetService(NewService)
    /\ last' = Call("init", "ok")
    /\ succeeded' = FALSE
    /\ UNCHANGED <<disk, origin, buildVars, appVars>>

\* build_index(txns), with generate_embeddings ending in `outcome`
Build(txns, outcome) ==
    LET r == build_index(Svc, txns, outcome)
    IN  /\ Idle
        /\ SetService(r.svc)
        /\ last' = Call("build", r.out)
        /\ succeeded' = (succeeded \/ r.out = "ok")
        /\ UNCHANGED <<disk, origin, buildVars, appVars>>

\* The service is in the state a successful build_index leaves.
FreshlyBuilt(s) == s = build_index(NewService, s.transactions, "ok").svc

\* The origin of the artifacts after a call took the disk from d0 to d1:
\* known when a freshly built service saved them, unknown once anything
\* else changed them.
OriginAfter(s, d0, d1, saved) ==
    IF saved /\ FreshlyBuilt(s) THEN [valid |-> TRUE, svc |-> s]
    ELSE IF d1 = d0 THEN origin
    ELSE NoOrigin

\* save_index(), with the sidecar write ending in `fault`
Save(fault) ==
    LET r == save_index(Svc, disk, fault)
    IN  /\ Idle
        /\ disk' = r.disk
        /\ last' = Call("save", r.out)
        /\ origin' = OriginAfter(Svc, disk, r.disk, r.out = "ok")
        /\ UNCHANGED <<svcVars, succeeded, buildVars, appVars>>

\* load_index(), with os.remove raising on the files in rmFail
Load(rmFail) ==
    LET r == load_index(Svc, disk, rmFail)
    IN  /\ Idle
        /\ SetService(r.svc)
        /\ disk' = r.disk
        /\ last' = [Call("load", r.out) EXCEPT
                       !.rmFail = IF r.out \in {"error", "remove_error"} THEN rmFail ELSE {},
                       !.fresh = (r.out = "ok" /\ Svc = NewService)]
        /\ succeeded' = (succeeded \/ r.out = "ok")
        /\ origin' = OriginAfter(Svc, disk, r.disk, FALSE)
        /\ UNCHANGED <<buildVars, appVars>>

\* Something outside the service deletes an artifact or leaves it unreadable.
Damage(f, how) ==
    /\ Idle
    /\ Exists(disk, f)
    /\ how = "corrupt" => disk[f].state = "ok"
    /\ disk' = [disk EXCEPT ![f] = IF how = "delete" THEN Absent ELSE Corrupt]
    /\ last' = Call("damage", "ok")
    /\ origin' = NoOrigin
    /\ UNCHANGED <<svcVars, succeeded, buildVars, appVars>>

\* semantic_search(q, top_k, filters); the FAISS release matters only when
\* no candidate is asked for
Search(q, top_k, filters, kChecked) ==
    LET r == semantic_search(Svc, q, top_k, filters, kChecked)
    IN  /\ Idle
        /\ ~kChecked => (~NotReady(Svc) /\ FetchCount(Svc, top_k) <= 0)
        /\ last' = [Call("search", r.out) EXCEPT !.query = q, !.top_k = top_k,
                                                  !.filters = filters,
                                                  !.results = r.results]
        /\ transactions' = StoredAfterSearch(Svc, q, top_k, filters)
        /\ UNCHANGED <<index, is_loaded, disk, succeeded, origin, buildVars, appVars>>

\* The caller takes the result of its query; the next call can start.
Return ==
    /\ ~Idle
    /\ last' = Call("return", "ok")
    /\ UNCHANGED <<svcVars, disk, succeeded, origin, buildVars, appVars>>

\* The service used directly: any sequence of calls, one at a time.
Next ==
    \/ Construct
    \/ \E txns \in RecordLists, outcome \in EmbedOutcomes : Build(txns, outcome)
    \/ \E fault \in SaveFaults : Save(fault)
    \/ \E rmFail \in SUBSET Files : Load(rmFail)
    \/ \E f \in Files, how \in {"delete", "corrupt"} : Damage(f, how)
    \/ \E q \in Queries, top_k \in TopKs, filters \in FilterSets, kChecked \in BOOLEAN :
          Search(q, top_k, filters, kChecked)
    \/ Return

Spec == Init /\ [][Next]_vars

\* ------------------------------------------- build_index, step by step

\* build_index(txns) starts: line 25 stores the record list
BuildStart(txns) ==
    /\ Idle
    /\ pc = "idle"
    /\ call' = [txns |-> txns, embeddings |-> <<>>, old |-> Svc]
    /\ SetService(BuildAssign(Svc, txns))
    /\ pc' = "embed"
    /\ last' = Call("build", "started")
    /\ UNCHANGED <<disk, succeeded, origin, appVars>>

\* lines 31-35: the embeddings are generated and counted; a raise ends the call
BuildEmbedStep(outcome) ==
    LET e == BuildEmbed(call.txns, outcome)
    IN  /\ Idle
        /\ pc = "embed"
        /\ call' = [call EXCEPT !.embeddings = e.embeddings]
        /\ pc' = IF e.ok THEN "create" ELSE "idle"
        /\ last' = IF e.ok THEN last ELSE Call("build", "error")
        /\ UNCHANGED <<svcVars, disk, succeeded, origin, appVars>>

\* line 38
BuildCreateStep ==
    /\ Idle
    /\ pc = "create"
    /\ SetService(BuildCreate(Svc))
    /\ pc' = "add"
    /\ UNCHANGED <<call, disk, last, succeeded, origin, appVars>>

\* line 39
BuildAddStep ==
    /\ Idle
    /\ pc = "add"
    /\ SetService(BuildAdd(Svc, call.embeddings))
    /\ pc' = "ready"
    /\ UNCHANGED <<call, disk, last, succeeded, origin, appVars>>

\* line 41: the call ends
BuildReadyStep ==
    /\ Idle
    /\ pc = "ready"
    /\ SetService(BuildReady(Svc))
    /\ pc' = "idle"
    /\ last' = Call("build", "ok")
    /\ succeeded' = TRUE
    /\ UNCHANGED <<call, disk, origin, appVars>>

\* One caller rebuilds the index while others query the service.
NextRebuild ==
    \/ \E txns \in RecordLists : BuildStart(txns)
    \/ \E outcome \in EmbedOutcomes : BuildEmbedStep(outcome)
    \/ BuildCreateStep
    \/ BuildAddStep
    \/ BuildReadyStep
    \/ \E q \in Queries, top_k \in TopKs, filters \in FilterSets, kChecked \in BOOLEAN :
          Search(q, top_k, filters, kChecked)
    \/ Return

SpecRebuild == Init /\ [][NextRebuild]_vars

\* ------------------------------------------- the application (api/app.py)

\* What an earlier run can have left of one artifact.
LeftOver(f) ==
    {Absent, Corrupt} \cup
    {IF f = "faiss"
        THEN Stored(WriteIndex(build_index(NewService, txns, "ok").svc.index))
        ELSE Stored(JsonDump(txns)) : txns \in RecordLists}

\* A record of a hand-written data file: its date names the month only.
ShortDateRecord == [Transaction(1) EXCEPT !.date = <<"2", "0", "2", "4", "-", "0", "1">>]

\* What the data source can hold at startup.
DataFiles == RecordLists \cup {<<ShortDateRecord>>}

\* The process starts: no service object yet, the data source holds `data`,
\* embeddings/ holds what earlier runs left.
InitApp ==
    /\ index = NewService.index
    /\ transactions = NewService.transactions
    /\ is_loaded = NewService.is_loaded
    /\ \E a \in LeftOver("faiss"), b \in LeftOver("meta") :
          disk = [f \in Files |-> IF f = "faiss" THEN a ELSE b]
    /\ pc = "idle"
    /\ call = NoCall
    /\ phase = "boot"
    /\ data \in DataFiles
    /\ router = FALSE
    /\ last = Call("init", "ok")
    /\ succeeded = FALSE
    /\ origin = NoOrigin

\* startup_event, lines 57-73: the services are constructed and the
\* transactions loaded or generated; EmbeddingService() raises when the
\* model cannot be loaded
StartupInit(modelLoads) ==
    /\ Idle
    /\ phase = "boot"
    /\ SetService(NewService)
    /\ phase' = IF modelLoads THEN "load" ELSE "failed"
    /\ last' = Call("startup", IF modelLoads THEN "running" ELSE "error")
    /\ UNCHANGED <<disk, data, router, succeeded, origin, buildVars>>

\* lines 76-81: load_index is tried; any exception leads to the rebuild
StartupLoad(rmFail) ==
    LET r == load_index(Svc, disk, rmFail)
    IN  /\ Idle
        /\ phase = "load"
        /\ SetService(r.svc)
        /\ disk' = r.disk
        /\ phase' = IF r.out = "ok" THEN "handover" ELSE "rebuild"
        /\ last' = [Call("load", r.out) EXCEPT
                       !.rmFail = IF r.out \in {"error", "remove_error"} THEN rmFail ELSE {},
                       !.fresh = (r.out = "ok" /\ Svc = NewService)]
        /\ succeeded' = (succeeded \/ r.out = "ok")
        /\ origin' = OriginAfter(Svc, disk, r.disk, FALSE)
        /\ UNCHANGED <<data, router, buildVars>>

\* lines 83-86: embeddings/ is removed and made again
StartupRebuild ==
    /\ Idle
    /\ phase = "rebuild"
    /\ disk' = EmptyDisk
    /\ phase' = "build"
    /\ last' = Call("rmtree", "ok")
    /\ origin' = NoOrigin
    /\ UNCHANGED <<svcVars, data, router, succeeded, buildVars>>

\* line 89: build_index(transactions); a raise ends the startup
StartupBuild(outcome) ==
    LET r == build_index(Svc, data, outcome)
    IN  /\ Idle
        /\ phase = "build"
        /\ SetService(r.svc)
        /\ phase' = IF r.out = "ok" THEN "save" ELSE "failed"
        /\ last' = Call("build", r.out)
        /\ succeeded' = (succeeded \/ r.out = "ok")
        /\ UNCHANGED <<disk, data, router, origin, buildVars>>

\* line 90: save_index(); a raise ends the startup
StartupSave(fault) ==
    LET r == save_index(Svc, disk, fault)
    IN  /\ Idle
        /\ phase = "save"
        /\ disk' = r.disk
        /\ phase' = IF r.out = "ok" THEN "handover" ELSE "failed"
        /\ last' = Call("save", r.out)
        /\ origin' = OriginAfter(Svc, disk, r.disk, r.out = "ok")
        /\ UNCHANGED <<svcVars, data, router, succeeded, buildVars>>

\* lines 96 and 102-117: update_search_router_services
update_search_router_services ==
    /\ Idle
    /\ phase = "handover"
    /\ router' = TRUE
    /\ phase' = "serving"
    /\ last' = Call("startup", "ok")
    /\ UNCHANGED <<svcVars, disk, data, succeeded, origin, buildVars>>

\* ValidRequest without the upper limits.
ValidRequest_NoUpperLimit(q, top_k) == 1 <= q.len /\ 1 <= top_k

\* Query(..., min_length=1, max_length=200) and Query(5, ge=1, le=200)
ValidRequest(q, top_k) ==
    /\ 1 <= q.len /\ q.len <= MaxQueryLen
    /\ 1 <= top_k /\ top_k <= MaxTopK

\* An answer of the endpoint without results: its status and detail.
Refusal(status, detail) ==
    [out |-> status, results |-> <<>>, summary |-> NoSummary, detail |-> detail]

\* ErrorResponse letting the exception leave the handler.
ErrorResponse_Uncaught(error) == Refusal("crash", error)

\* search_transactions, lines 48-50: an exception raised inside the try
\* block becomes HTTPException(500, "Search failed: " + str(e))
ErrorResponse(error) == Refusal("500", error)

\* search_transactions as one call: the status of the answer, its results
\* and summary, and the error its detail carries.  The router holds a
\* summarizer whenever it holds the search service.
search_transactions(s, routerSet, q, top_k, kChecked) ==
    IF ~ValidRequest(q, top_k) THEN Refusal("422", "validation")
    ELSE IF ~routerSet \/ ~s.is_loaded THEN Refusal("503", "not_ready")
    ELSE LET r == semantic_search(s, q, top_k, <<>>, kChecked)
             results == [n \in DOMAIN r.results |-> PyDict(r.results[n])]
             sm == summarize_results(results, q)
         IN  IF r.out # "ok" THEN ErrorResponse(r.out)
             ELSE IF sm.raised THEN ErrorResponse("summarize_error")
             ELSE [out |-> "200", results |-> sm.transactions,
                   summary |-> sm.summary, detail |-> "none"]

\* The service's record list after search_transactions.
StoredAfterRequest(s, routerSet, q, top_k) ==
    IF ~ValidRequest(q, top_k) \/ ~routerSet \/ ~s.is_loaded THEN s.transactions
    ELSE StoredAfterSearch(s, q, top_k, <<>>)

\* top_k values clients send
HttpTopKs == {0, 1, MaxTopK, MaxTopK + 1}

\* GET /api/v1/search?query=q&top_k=top_k
Get(q, top_k, kChecked) ==
    LET r == search_transactions(Svc, router, q, top_k, kChecked)
    IN  /\ Idle
        /\ ~kChecked => (r.out = "200" /\ FetchCount(Svc, top_k) <= 0)
        /\ last' = [Call("GET", r.out) EXCEPT !.query = q, !.top_k = top_k,
                                               !.results = r.results,
                                               !.summary = r.summary,
                                               !.detail = r.detail]
        /\ transactions' = StoredAfterRequest(Svc, router, q, top_k)
        /\ UNCHANGED <<index, is_loaded, disk, succeeded, origin, buildVars, appVars>>

\* The process: startup, requests arriving at any time, and components
\* calling semantic_search on the service object without the endpoint.
NextApp ==
    \/ \E modelLoads \in BOOLEAN : StartupInit(modelLoads)
    \/ \E rmFail \in SUBSET Files : StartupLoad(rmFail)
    \/ StartupRebuild
    \/ \E outcome \in EmbedOutcomes : StartupBuild(outcome)
    \/ \E fault \in SaveFaults : StartupSave(fault)
    \/ update_search_router_services
    \/ \E q \in Queries, top_k \in HttpTopKs, kChecked \in BOOLEAN : Get(q, top_k, kChecked)
    \/ \E q \in Queries, top_k \in TopKs, filters \in FilterSets, kChecked \in BOOLEAN :
          Search(q, top_k, filters, kChecked)
    \/ Return

SpecApp == InitApp /\ [][NextApp]_vars

\* ------------------------------------------- summarize_results on its own

\* A dictionary without one of its keys.
Without(t, key) == [k \in DOMAIN t \ {key} |-> t[k]]

\* A result of semantic_search as the summarizer gets it: record i of the
\* generator with a score.
Result(i) == PyDict(WithScore(Transaction(i), 1))

\* The shapes of result dictionaries the summarizer is given: the generator's
\* records, and records of hand-written data whose fields are missing, of
\* another type, or malformed.
ResultPool ==
    << Result(1), Result(2), Result(3), Result(4), Result(5),
       Without(Result(1), "amount"),
       [Result(2) EXCEPT !.amount = PyFloat(1234004), !.category = "Bills"],
       [Result(3) EXCEPT !.amount = PyInt(LARGE_TXN_THRESHOLD)],
       [Result(5) EXCEPT !.amount = PyBadNumber],
       Without(Result(2), "date"),
       [Result(3) EXCEPT !.date = PyNoDate],
       PyDict(WithScore(ShortDateRecord, 1)),
       [Result(4) EXCEPT !.date = PyStr(<<"2","0","2","4","-","1","3","-","4","5">>)],
       [Result(5) EXCEPT !.date = PyStr(<<"2","0","2","4","-","0","2","-","2","9",
                                          "T","1","0",":","3","0",":","0","0">>)],
       [Result(1) EXCEPT !.date = PyStr(<<"0","5","/","0","1","/","2","0","2","4">>)],
       Without(Result(1), "description"),
       Without(Result(5), "category"),
       [Result(1) EXCEPT !.category = ""] >>

\* n copies of one dictionary
Repeat(t, n) == [i \in 1..n |-> t]

\* Record i with another description, category or amount.
Described(i, description) == [Result(i) EXCEPT !.description = description]
Categorized(i, category, amount) ==
    [Result(i) EXCEPT !.category = category, !.amount = PyInt(amount)]

\* Result lists chosen for what the summary says of them: the scenario of
\* three records in two categories; seven categories, two of them with
\* equal sums; descriptions that recur in different spellings, that recur
\* equally often, or that are empty; and lists about the volume threshold.
PickedLists ==
    << <<>>,
       << Categorized(1, "Food", 100), Categorized(2, "Food", 200),
          Categorized(3, "Travel", 9000) >>,
       << Categorized(1, "Food", 30), Categorized(2, "Travel", 70),
          Categorized(3, "Rent", 50), Categorized(4, "Salary", 20),
          Categorized(5, "Bills", 10), Categorized(1, "Shopping", 50),
          Categorized(2, "Health", 60), Categorized(3, "Food", 30) >>,
       << Categorized(1, "Food", 10), Categorized(2, "Travel", 10),
          Categorized(3, "Rent", 10), Categorized(4, "Salary", 10),
          Categorized(5, "Bills", 10), Categorized(1, "Shopping", 10) >>,
       << Described(1, <<"U","b","e","r">>), Described(3, <<"R","e","n","t">>),
          Described(2, <<"U","B","E","R">>), Described(5, <<"u","b","e","r">>) >>,
       << Described(1, <<"c","a","b">>), Described(2, <<"P","a","y">>),
          Described(5, <<"P","A","Y">>), Described(1, <<"C","a","b">>),
          Described(2, <<"p","a","y">>), Described(5, <<"c","a","B">>) >>,
       << Described(1, <<"c","a","b">>), Described(2, <<"c","a","b">>) >>,
       Repeat(Described(1, <<>>), 4) \o Repeat(Described(5, <<"c","a","b">>), 3),
       Repeat(Without(Result(1), "description"), 3),
       Repeat(Result(5), VolumeThreshold),
       Repeat(Result(5), VolumeThreshold + 1),
       Repeat(Result(5), VolumeThreshold) \o <<Result(3)>> >>

\* The result lists summarize_results is called with: the picked ones, and
\* every list of one or two dictionaries of the pool.
SummaryInputs ==
    PickedLists
    \o [n \in 1..Len(ResultPool) |-> <<ResultPool[n]>>]
    \o [n \in 1..(Len(ResultPool) * Len(ResultPool)) |->
           << ResultPool[((n - 1) \div Len(ResultPool)) + 1],
              ResultPool[((n - 1) % Len(ResultPool)) + 1] >>]

\* summarize_results(SummaryInputs[n], q); `last` keeps the list as it was
\* given, the same list after the call, and the summary
Summarize(n, q) ==
    LET r == summarize_results(SummaryInputs[n], q)
    IN  /\ Idle
        /\ last' = [Call("summarize", IF r.raised THEN "error" ELSE "ok") EXCEPT
                       !.query = q,
                       !.given = SummaryInputs[n],
                       !.results = r.transactions,
                       !.summary = r.summary]
        /\ UNCHANGED <<svcVars, disk, succeeded, origin, buildVars, appVars>>

\* The summarizer called on one result list after another.
NextSummary ==
    \/ \E n \in DOMAIN SummaryInputs, q \in Queries : Summarize(n, q)
    \/ Return

SpecSummary == Init /\ [][NextSummary]_vars

\* ----------------------------------------------------------------- claims

\* get_index_info()['index_size']: the number of vectors the index holds
IndexSize(s) == IF s.index.none THEN 0 ELSE Len(s.index.vecs)

\* C1: between calls, the index holds as many vectors as the service holds
\* records, and the vector at each position is the embedding of the record
\* at that position.
C1_IndexParallelToRecords ==
    pc = "idle" =>
        /\ IndexSize(Svc) = Len(transactions)
        /\ \A i \in 1..Len(transactions) :
              index.vecs[i] = Encode(create_embedding_text(transactions[i]))

\* C2: a build_index call that raises leaves index, record list and ready
\* flag as they were before the call.
C2_FailedBuildChangesNothing ==
    [][(last'.op = "build" /\ last'.out = "error")
          => UNCHANGED <<index, transactions, is_loaded>>]_vars

\* C5: a load_index that fails on a corrupt artifact leaves neither artifact
\* behind, each deletion being tried whatever became of the other (a file
\* whose os.remove does not raise is gone), and re-raises the read error when
\* no deletion raised; a load_index that finds no index file ends with the
\* not-found error.
C5_FailedLoadCleansBoth ==
    [][last'.op = "load" =>
          /\ ~Exists(disk, "faiss") => last'.out = "not_found"
          /\ last'.out \in {"error", "remove_error"} =>
                /\ \A f \in Files : f \notin last'.rmFail => ~Exists(disk', f)
                /\ last'.rmFail = {} => last'.out = "error"]_vars

\* C6: load_index does not end successfully, with the service ready, when the
\* index file is there and the metadata sidecar is not.
C6_NoLoadWithoutSidecar ==
    [][(last'.op = "load" /\ Exists(disk, "faiss") /\ ~Exists(disk, "meta"))
          => ~(last'.out = "ok" /\ is_loaded')]_vars

\* The answers of a service to every query, top_k and filter set.
Answers(s) ==
    [q \in Queries |-> [k \in TopKs |-> [F \in FilterSets |-> [c \in BOOLEAN |->
        semantic_search(s, q, k, F, c)]]]]

\* C7: a new service that loads the artifacts a freshly built service saved
\* answers every query, for every top_k, as the saving service did: same
\* records, same positions, same scores.
C7_RoundTrip ==
    (last.op = "load" /\ last.out = "ok" /\ last.fresh /\ origin.valid)
        => Answers(Svc) = Answers(origin.svc)

\* C7 witness: such a load has happened, of an index of several records
\* that answers a query with results.
C7_Witness ==
    /\ last.op = "load" /\ last.out = "ok" /\ last.fresh /\ origin.valid
    /\ Len(transactions) >= 3
    /\ \E q \in Queries : Len(semantic_search(Svc, q, 2, <<>>, TRUE).results) = 2

\* One filter item, as the specification words it.
Satisfies(t, key, value) ==
    CASE key = "min_amount" -> t.amount >= value
      [] key = "max_amount" -> t.amount <= value
      [] key = "type" -> t.type = value
      [] key = "category" -> t.category = value
      [] key = "user_id" -> t.userId = value
      [] key = "month" -> SubSeq(t.date, 1, Len(value)) = value
      [] key = "description_contains" ->
            \E a, b \in 0..Len(t.description) :
                Lower(SubSeq(t.description, a + 1, b)) = Lower(value)
      [] OTHER -> TRUE

\* Every item of the filter set holds of the record.
SatisfiesAll(t, F) == \A i \in DOMAIN F : Satisfies(t, F[i][1], F[i][2])

\* The positions of a record list, best match for qv first: by the inner
\* product of each record's own embedding, equal products by position.
RankedPositions(txns, qv) ==
    LET score(i) == InnerProduct(Encode(create_embedding_text(txns[i])), qv)
        before(j, i) == score(j) > score(i) \/ (score(j) = score(i) /\ j < i)
    IN  [r \in 1..Len(txns) |->
            CHOOSE i \in 1..Len(txns) :
                Cardinality({j \in 1..Len(txns) : before(j, i)}) = r - 1]

\* What the specification has semantic_search return: of the top
\* min(3k, N) records, the first k that pass the filters, each with its score.
ExpectedResults(txns, q, k, F) ==
    LET ranked == RankedPositions(txns, q.vec)
        cands == SubSeq(ranked, 1, Min(OverFetch * k, Len(txns)))
        pass(i) == SatisfiesAll(txns[i], F)
        kept == SelectSeq(cands, pass)
        firstK == SubSeq(kept, 1, Min(k, Len(kept)))
    IN  [n \in 1..Len(firstK) |->
            WithScore(txns[firstK[n]],
                      InnerProduct(Encode(create_embedding_text(txns[firstK[n]])), q.vec))]

\* C8: on a ready service holding N >= 1 records semantic_search does not
\* raise and returns exactly the first k filter-passing records of the top
\* min(3k, N) candidates, in descending-score order, each with its own
\* similarity score.  (The service holding no record is left out: the
\* specification leaves that case open.)
C8_SearchReturnsFirstKPassing ==
    (last.op = "search" /\ pc = "idle" /\ ~NotReady(Svc) /\ Len(transactions) >= 1) =>
        /\ last.out = "ok"
        /\ last.results = ExpectedResults(transactions, last.query, last.top_k,
                                          last.filters)

\* C9: every record semantic_search returns satisfies every item of the
\* filter set, and the filter check accepts exactly the stored records that
\* satisfy every item (nothing outside the filter set is held against one).
C9_FilterConjunction ==
    last.op = "search" =>
        /\ \A n \in DOMAIN last.results : SatisfiesAll(last.results[n], last.filters)
        /\ \A i \in DOMAIN transactions :
              PassesFilters(transactions[i], last.filters)
                  <=> SatisfiesAll(transactions[i], last.filters)

\* C9 witness: a search with a two-key filter set returned a record while
\* the service holds a record that fails one key only.
C9_Witness ==
    /\ last.op = "search"
    /\ Len(last.filters) = 2
    /\ Len(last.results) >= 1
    /\ \E i \in DOMAIN transactions :
          /\ Satisfies(transactions[i], last.filters[1][1], last.filters[1][2])
          /\ ~Satisfies(transactions[i], last.filters[2][1], last.filters[2][2])

\* The answer in `last` is what service s gives to the same query.
AnsweredAsBy(s) ==
    \E c \in BOOLEAN :
        semantic_search(s, last.query, last.top_k, last.filters, c)
            = [out |-> last.out, results |-> last.results]

\* C3: a semantic_search that runs while build_index(R) rebuilds a ready,
\* freshly built service holding records is answered either from the complete old index
\* with the old records or from the complete new index with the new ones.
C3_SearchSeesOldOrNew ==
    (last.op = "search" /\ pc # "idle" /\ FreshlyBuilt(call.old)
        /\ Len(call.old.transactions) >= 1) =>
        \/ AnsweredAsBy(call.old)
        \/ AnsweredAsBy(build_index(NewService, call.txns, "ok").svc)

InvalidQuery(q, k) == q.len = 0 \/ q.len > MaxQueryLen \/ k < 1 \/ k > MaxTopK

\* C10 as claimed: a search with an invalid query_text or k, whether made
\* through semantic_search or through the endpoint, is rejected and returns
\* no result (stated of a freshly built service holding records).
C10_SearchRejectsInvalid ==
    (last.op \in {"search", "GET"} /\ InvalidQuery(last.query, last.top_k)
        /\ FreshlyBuilt(Svc) /\ Len(transactions) >= 1) =>
        /\ last.out \in {"invalid_query", "422"}
        /\ last.results = <<>>

\* C10 as amended: the endpoint rejects a request whose query is empty or
\* longer than 200 characters, or whose top_k is outside 1..200, with a
\* validation error and no result, whatever the state of the service.
C10_EndpointRejectsInvalid ==
    (last.op = "GET" /\ InvalidQuery(last.query, last.top_k)) =>
        (last.out = "422" /\ last.results = <<>>)

\* C10 witness: a serving application holding records was sent an
\* over-long query and rejected it.
C10_Witness ==
    /\ last.op = "GET"
    /\ phase = "serving"
    /\ Len(transactions) >= 1
    /\ last.query.len > MaxQueryLen
    /\ last.top_k = 1
    /\ last.out = "422"

\* C11: once startup has handed the services to the query endpoint, the
\* service is ready and its index and record list are those a build from the
\* records loaded or generated at startup gives.  (Stated of the runs that
\* end with both artifacts on disk.)
C11_StartupEndsCoveringData ==
    (router /\ Exists(disk, "faiss") /\ Exists(disk, "meta")) =>
        /\ is_loaded
        /\ Svc = build_index(NewService, data, "ok").svc

\* C12: a request that reaches the handler's try block on a ready service
\* and meets an error of semantic_search or of summarize_results is answered
\* with status 500 whose detail carries that error, and with status 200
\* otherwise; no request ends the process or changes the service's index,
\* ready flag or registration with the router, so the next request is
\* handled as this one was.
C12_ErrorsBecome500 ==
    [][last'.op = "GET" =>
          /\ UNCHANGED <<index, is_loaded, router, phase>>
          /\ last'.out \in {"200", "422", "500", "503"}
          /\ (router /\ is_loaded /\ ValidRequest(last'.query, last'.top_k)) =>
                \E c \in BOOLEAN :
                    LET r == semantic_search(Svc, last'.query, last'.top_k, <<>>, c)
                        sm == summarize_results(
                                  [n \in DOMAIN r.results |-> PyDict(r.results[n])],
                                  last'.query)
                    IN  IF r.out # "ok"
                        THEN last'.out = "500" /\ last'.detail = r.out
                        ELSE IF sm.raised
                        THEN last'.out = "500" /\ last'.detail = "summarize_error"
                        ELSE last'.out = "200"]_vars

\* C12 witness: a valid request to the ready service was answered 500
\* because summarize_results raised, and the service is still ready.
C12_Witness ==
    /\ last.op = "GET"
    /\ last.out = "500"
    /\ last.detail = "summarize_error"
    /\ router /\ is_loaded

\* The amount of a result record as a number, in thousandths; a record
\* without an amount counts as 0.
AmountValue(t) ==
    IF "amount" \notin DOMAIN t THEN 0
    ELSE IF t.amount.py = "int" THEN t.amount.v * 1000
    ELSE t.amount.v

\* The categories of a result list and the summed amount of one of them.
CategoriesIn(list) == {CategoryOf(list[i]) : i \in DOMAIN list}
CategoryTotal(list, c) ==
    Sum([i \in DOMAIN list |-> IF CategoryOf(list[i]) = c THEN AmountValue(list[i]) ELSE 0])

\* category_breakdown and top_category of the last summary are as C13 says,
\* each category being mapped to Shown(its summed amount).
BreakdownIs(Shown(_)) ==
    LET cb == last.summary.category_breakdown
        cats == CategoriesIn(last.given)
        total(c) == CategoryTotal(last.given, c)
    IN  /\ Len(cb) = Min(TOP_N_CATEGORIES, Cardinality(cats))
        /\ \A i \in DOMAIN cb : cb[i][1] \in cats /\ cb[i][2] = Shown(total(cb[i][1]))
        /\ \A i, j \in DOMAIN cb : i < j =>
              cb[i][1] # cb[j][1] /\ total(cb[i][1]) >= total(cb[j][1])
        /\ \A c \in cats : (\A i \in DOMAIN cb : cb[i][1] # c) =>
              \A i \in DOMAIN cb : total(c) <= total(cb[i][1])
        /\ last.summary.top_category = cb[1][1]
        /\ last.given = PickedLists[2] =>
              cb = << <<"Travel", 9000 * 1000>>, <<"Food", 300 * 1000>> >>

\* A summary was made of a non-empty result list.
Summarized == last.op = "summarize" /\ last.out = "ok" /\ Len(last.given) > 0

Exactly(x) == x

\* C13 as stated: category_breakdown holds at most 5 categories, each mapped
\* to the sum of the amounts of its records, in descending order of the sums,
\* no category left out having a larger sum than one included; top_category
\* is the first; the scenario gives {Travel: 9000, Food: 300}.
C13_BreakdownExactSums == Summarized => BreakdownIs(Exactly)

\* C13, amended: as above, each category being mapped to the sum of the
\* amounts of its records rounded to two decimals.
C13_BreakdownRoundedSums == Summarized => BreakdownIs(Round2)

\* C13 witness: a summary of records in more than five categories, two of
\* which have equal sums.
C13_Witness ==
    /\ Summarized
    /\ Cardinality(CategoriesIn(last.given)) > TOP_N_CATEGORIES
    /\ Len(last.summary.category_breakdown) = TOP_N_CATEGORIES
    /\ \E c, d \in CategoriesIn(last.given) :
          c # d /\ CategoryTotal(last.given, c) = CategoryTotal(last.given, d)

\* C14: summarize_results leaves the records it is given as they were: the
\* same fields, the same values, the same types.
C14_SummarizeLeavesRecords ==
    last.op = "summarize" => last.results = last.given

\* C15: a semantic_search call, whatever its query, top_k and filters and
\* whether it returns or raises, leaves the service's index, record list and
\* ready flag as they were, and no stored record carries a similarity_score
\* afterwards.
C15_SearchIsReadOnly ==
    [][last'.op = "search" =>
          /\ UNCHANGED <<index, transactions, is_loaded>>
          /\ \A i \in DOMAIN transactions' :
                "similarity_score" \notin DOMAIN transactions'[i]]_vars

\* C15 witness: a filtered search has returned records carrying scores while
\* the stored records carry none.
C15_Witness ==
    /\ last.op = "search"
    /\ Len(last.filters) >= 1
    /\ Len(last.results) >= 1
    /\ \A n \in DOMAIN last.results : "similarity_score" \in DOMAIN last.results[n]
    /\ Len(transactions) >= 2
    /\ \A i \in DOMAIN transactions : "similarity_score" \notin DOMAIN transactions[i]

\* The place of an insight in the fixed order: a, b, c, d.
InsightOrder(kind) ==
    CASE kind = "highest_category" -> 1
      [] kind = "largest_transaction" -> 2
      [] kind = "frequent_payee" -> 3
      [] kind = "high_volume" -> 4
      [] OTHER -> 0

\* The insight of a kind is among those of the last summary.
HasInsight(kind) == \E i \in DOMAIN last.summary.insights : last.summary.insights[i].kind = kind

\* The largest amount among the records given.
LargestAmount(list) ==
    CHOOSE a \in {AmountValue(list[i]) : i \in DOMAIN list} :
        \A i \in DOMAIN list : AmountValue(list[i]) <= a

\* C16: the insights of a summary of a non-empty result list are, in the
\* order a, b, c, d and with nothing else: (a) the highest spending category,
\* always there; (b) the largest transaction, there exactly when the largest
\* amount is >= 5000; (c) the frequent payee, if there at all; (d) the high
\* volume, there exactly when more than 50 records were given.
C16_InsightsInFixedOrder ==
    Summarized =>
        LET insights == last.summary.insights
        IN  /\ \A i \in DOMAIN insights : InsightOrder(insights[i].kind) \in 1..4
            /\ \A i, j \in DOMAIN insights :
                  i < j => InsightOrder(insights[i].kind) < InsightOrder(insights[j].kind)
            /\ HasInsight("highest_category")
            /\ HasInsight("largest_transaction")
                  <=> LargestAmount(last.given) >= LARGE_TXN_THRESHOLD * 1000
            /\ HasInsight("high_volume") <=> Len(last.given) > VolumeThreshold

\* C16 witness: a summary carrying all four insights.
C16_Witness ==
    /\ Summarized
    /\ Len(last.summary.insights) = 4

\* The lower-cased descriptions of a result list, a record without one
\* counting as the empty description, and how often one occurs.
DescriptionsOf(list) == [i \in DOMAIN list |-> Lower(DictGet(list[i], "description", <<>>))]
Occurrences(list, d) == Cardinality({i \in DOMAIN list : DescriptionsOf(list)[i] = d})

\* C17: the frequent-payee insight is there exactly when some description,
\* compared in lower case, occurs more than twice among the records; it
\* names the most frequent description with its count, and of equally
\* frequent ones the one met first.  (Stated of descriptions that are not
\* empty.)
C17_FrequentPayee ==
    Summarized =>
        LET descs == DescriptionsOf(last.given)
            n(i) == Occurrences(last.given, descs[i])
            first == CHOOSE i \in DOMAIN descs :
                         /\ \A j \in DOMAIN descs : n(j) <= n(i)
                         /\ \A j \in 1..(i - 1) : n(j) < n(i)
        IN  /\ HasInsight("frequent_payee")
                  <=> \E i \in DOMAIN descs : Len(descs[i]) > 0 /\ n(i) > 2
            /\ \A k \in DOMAIN last.summary.insights :
                  last.summary.insights[k].kind = "frequent_payee" =>
                      last.summary.insights[k].args = <<descs[first], n(first)>>

\* The bucket C18 gives a record: the YYYY-MM of its date when the date is
\* a string that parses as an ISO date, "unknown" otherwise.
MonthOf(t) ==
    LET d == DictGet(t, "date", PyNoDate)
    IN  IF d.py = "str" /\ fromisoformat(d.v).ok THEN SubSeq(d.v, 1, 7) ELSE Unknown

\* C18: summarize_results does not raise over a date, whatever it is, and
\* monthly_summary holds one bucket per YYYY-MM of the dates that parse, with
\* the (rounded) sum of the amounts of its records, every record whose date
\* is missing, not a string or does not parse being counted under "unknown".
\* (Stated of lists whose amounts are all numbers.)
C18_MonthlyBuckets ==
    (/\ last.op = "summarize"
     /\ Len(last.given) > 0
     /\ \A i \in DOMAIN last.given :
           Floatable(DictGet(last.given[i], "amount", PyInt(0)))) =>
        LET ms == last.summary.monthly_summary
            months == {MonthOf(last.given[i]) : i \in DOMAIN last.given}
            total(m) == Sum([i \in DOMAIN last.given |->
                               IF MonthOf(last.given[i]) = m
                               THEN AmountValue(last.given[i]) ELSE 0])
        IN  /\ last.out = "ok"
            /\ Len(ms) = Cardinality(months)
            /\ \A m \in months : \E k \in DOMAIN ms : ms[k] = <<m, Round2(total(m))>>

\* C19: every record a semantic_search returns is the stored record of a
\* position the index holds a vector for, with the score of that vector, and
\* no stored record is returned twice; a slot the index could not fill
\* (position -1) gives no result.
C19_ResultsAreIndexedRecords ==
    (last.op = "search" /\ last.out = "ok" /\ pc = "idle") =>
        LET held == 1..Min(IndexSize(Svc), Len(transactions))
        IN  /\ \A n \in DOMAIN last.results : \E p \in held :
                  last.results[n] =
                      WithScore(transactions[p],
                                InnerProduct(index.vecs[p], last.query.vec))
            /\ \A n, m \in DOMAIN last.results :
                  n # m => last.results[n].id # last.results[m].id
====
